---- MODULE Spec2Model ----
(***************************************************************************)
(* Model of backend/engine.py (the LPBF tile-selection simulation engine)  *)
(* and of the three endpoints of backend/main.py that drive it.            *)
(*                                                                         *)
(* Numbers.  The engine computes in float64.  The model computes the same  *)
(* expressions exactly, in the field of integers modulo the prime Q: every *)
(* literal of the source is the residue of the rational it denotes, and    *)
(* "/" is multiplication by the modular inverse.  Every equality that      *)
(* holds of the exact rational computation holds of the model; rounding    *)
(* error and order comparisons of temperatures are outside the model.      *)
(*                                                                         *)
(* Indices are 0-based as in the source; a Python list is a TLA+ sequence  *)
(* read through PyGet (index k is element k+1).                            *)
(***************************************************************************)
EXTENDS Integers, Sequences, FiniteSets, TLC

\* ------------------------------------------------------------------------
\* Bounds of the exploration
\* ------------------------------------------------------------------------
\* sizes offered to start_simulation are MinSize..MaxSize
MaxSize == 2
\* tiles offered to make_move in a session are 1..Min(MaxTile, N*M), next to
\* the indices MinIndex..0 and N*M + 1 that lie outside the grid
MaxTile == 4

MinSize == 0 - 2
MinIndex == 0 - 1

\* ------------------------------------------------------------------------
\* Exact arithmetic modulo Q
\* ------------------------------------------------------------------------
Q == 10007

Max(a, b) == IF a > b THEN a ELSE b

Neg(a) == (Q - (a % Q)) % Q

RECURSIVE ModPow(_, _)
ModPow(a, e) ==
    IF e = 0 THEN 1
    ELSE LET h2 == ModPow(a, e \div 2)
             sq == (h2 * h2) % Q
         IN IF e % 2 = 1 THEN (sq * (a % Q)) % Q ELSE sq

Inv(a) == ModPow(a, Q - 2)

Div(a, b) == ((a % Q) * Inv(b)) % Q

Mul(a, b) == ((a % Q) * (b % Q)) % Q

\* ------------------------------------------------------------------------
\* Physical parameters, LPBFSimulation.__init__ lines 33-50
\* ------------------------------------------------------------------------
dx == Div(200, 1000000)
kt == 24
rho == 7800
Cp == 460
alpha == Div(kt, rho * Cp)
P == Div(180 * 37, 100)
T_init == 293
T_a == 293
T_m == 273 + 1427
h == 20
v_s == Div(6, 10)
dt == Div(Div(dx, v_s), 1)

F == Div(Div(Mul(alpha, dt), dx), dx)
G == Div(Div(Div(Div(Mul(Mul(alpha, P), dt), kt), dx), dx), dx)
H == Div(Div(Mul(Mul(alpha, h), dt), kt), dx)

\* ------------------------------------------------------------------------
\* Python helpers
\* ------------------------------------------------------------------------
\* range(a, b) as a sequence
Range(a, b) == [k \in 1..Max(0, b - a) |-> a + k - 1]

\* range(a, b, 2) as a sequence
Range2(a, b) == [k \in 1..Max(0, (b - a + 1) \div 2) |-> a + 2 * (k - 1)]

\* range(a, b, -1) as a sequence
RangeDown(a, b) == [k \in 1..Max(0, a - b) |-> a - k + 1]

\* lst[0:stop:2]  and  lst[1:stop:2]
Slice2(lst, start, stop) ==
    LET top == IF stop < Len(lst) THEN stop ELSE Len(lst)
    IN [k \in 1..Max(0, (top - start + 1) \div 2) |-> lst[start + 2 * (k - 1) + 1]]

\* lst[k] is defined (no IndexError) iff -len <= k < len
PyInRange(len, k) == (k < len) /\ (k >= 0 - len)

PyIdx(len, k) == IF k < 0 THEN k + len ELSE k

PyGet(lst, k) == lst[PyIdx(Len(lst), k) + 1]

RECURSIVE Flatten(_)
Flatten(ss) == IF ss = <<>> THEN <<>> ELSE Head(ss) \o Flatten(Tail(ss))

\* ------------------------------------------------------------------------
\* Matrices: a d1-by-d2 matrix is a function 0..d1-1 -> (0..d2-1 -> residue)
\* ------------------------------------------------------------------------
Abs(x) == IF x < 0 THEN 0 - x ELSE x

\* np.array([-2*F] + [F] + [0]*(M*N-2)); a negative repeat count gives []
Diagonals(M, N) == <<Neg(Mul(2, F)), F>> \o [k \in 1..Max(0, M * N - 2) |-> 0]

\* scipy.linalg.toeplitz(c): symmetric, entry (i, j) is c[|i - j|]
Toeplitz(c) ==
    [i \in 0..Len(c) - 1 |-> [j \in 0..Len(c) - 1 |-> c[Abs(i - j) + 1]]]

\* mat[i, j] = v on a d-by-d matrix, negative indices counted from the end
SetItem(mat, d, i, j, v) ==
    [mat EXCEPT ![PyIdx(d, i)] = [@ EXCEPT ![PyIdx(d, j)] = v]]

\* Ax1 after lines 54-56, a ToeplitzDim-by-ToeplitzDim matrix
ToeplitzDim(M, N) == Len(Diagonals(M, N))

Ax1(M, N) ==
    LET d == ToeplitzDim(M, N)
        t0 == Toeplitz(Diagonals(M, N))
        t1 == SetItem(t0, d, 0, 0, Neg(F))
    IN SetItem(t1, d, M * N - 1, M * N - 1, Neg(F))

\* entry (i, j) of eye(d)
Eye(i, j) == IF i = j THEN 1 ELSE 0

\* entry (i, j) of kron(eye(da), B) with B db-by-db
KronEyeB(B, db, i, j) == Mul(Eye(i \div db, j \div db), B[i % db][j % db])

\* entry (i, j) of kron(B, eye(da))
KronBEye(B, da, i, j) == Mul(B[i \div da][j \div da], Eye(i % da, j % da))

\* lines 57-60 add matrices of shape (M*N*d)^2 and ((M*N)^2)^2; scipy raises
\* ValueError("inconsistent shapes") when the two shapes differ
ShapesAgree(M, N) == (M * N) * ToeplitzDim(M, N) = (M * N) * (M * N)

FineCells(M, N) == (M * N) * (M * N)

\* entry (i, j) of A after line 60
AEntry(M, N, x1, i, j) ==
    LET d == ToeplitzDim(M, N)
        ax == KronEyeB(x1, d, i, j)
        ay == KronBEye(x1, M * N, i, j)
    IN (ax + ay + Eye(i, j) + Neg(Mul(H, Eye(i, j)))) % Q

\* A after line 71: [[A - 0*F*eye, 0*F*ones, H*ones], [zeros, eye(2)]]
A_ext(M, N) ==
    LET nc == FineCells(M, N)
        x1 == Ax1(M, N)
    IN [i \in 0..nc + 1 |->
         [j \in 0..nc + 1 |->
            IF i < nc
            THEN IF j < nc THEN (AEntry(M, N, x1, i, j) + Neg(Mul(Mul(0, F), Eye(i, j)))) % Q
                 ELSE IF j = nc THEN Mul(0, F) ELSE H
            ELSE IF j < nc THEN 0 ELSE Eye(i - nc, j - nc)]]

\* ------------------------------------------------------------------------
\* Scan-path index lists, lines 76-89
\* ------------------------------------------------------------------------
\* row zigzag: rows i and i+1 of the tile for every even i in range(0, N)
setN1(M, N) ==
    Flatten([k \in 1..Len(Range(0, N)) |->
        LET i == Range(0, N)[k]
            fwd == Range(1, N + 1)
            bwd == RangeDown(N, 0)
        IN IF i % 2 = 0
           THEN [x \in 1..Len(fwd) |-> i * M * N + fwd[x]]
                \o [x \in 1..Len(bwd) |-> (i + 1) * M * N + bwd[x]]
           ELSE <<>>])

\* column zigzag: columns i and i+1 of the tile for i in range(1, M+1, 2)
setN2(M, N) ==
    Flatten([k \in 1..Len(Range2(1, M + 1)) |->
        LET i == Range2(1, M + 1)[k]
            fwd == Range(0, N)
            bwd == RangeDown(N - 1, 0 - 1)
        IN [x \in 1..Len(fwd) |-> fwd[x] * M * N + i]
           \o [x \in 1..Len(bwd) |-> bwd[x] * M * N + i + 1]])

\* 1-based fine-grid index of the first cell of every tile, tiles row-major
setM(M, N) ==
    Flatten([k \in 1..Len(Range(0, M)) |->
        LET i == Range(0, M)[k]
            js == Range(0, M)
        IN [x \in 1..Len(js) |-> js[x] * N + i * N * N * M + 1]])

\* ------------------------------------------------------------------------
\* Ab / Bb accumulation, lines 73-98
\* ------------------------------------------------------------------------
\* the value v, evaluated once here rather than at each later use
Evaluated(v) == IF v = v THEN v ELSE v

RECURSIVE SumStored(_, _, _, _, _)
\* sum over the first i stored (non-zero) entries k of column c of B of row[k] * B[k][c]
SumStored(row, B, c, ks, i) ==
    IF i = 0 THEN 0
    ELSE (row[ks[i]] * B[ks[i]][c] + SumStored(row, B, c, ks, i - 1)) % Q

\* the rows at which column c of the sparse matrix B holds an entry
Stored(B, n) ==
    Evaluated([c \in 0..n - 1 |-> SelectSeq(Range(0, n), LAMBDA k : B[k][c] # 0)])

\* the sparse product X @ B of n-by-n matrices
MatMul(X, B, stored, n) ==
    Evaluated([r \in 0..n - 1 |-> [c \in 0..n - 1 |-> SumStored(X[r], B, c, stored[c], Len(stored[c]))]])

\* np.array(setM[start:M**2:2]) + off - 1
TileColumns(M, N, start, off) ==
    LET sl == Slice2(setM(M, N), start, M * M)
    IN Evaluated([k \in 1..Len(sl) |-> sl[k] + off - 1])

\* Bb[:, start:M**2:2] += G * Ab[:, cols]
AddColumns(M, N, Ab, Bb, start, cols) ==
    LET n == FineCells(M, N) + 2
    IN Evaluated([r \in 0..n - 1 |->
         [c \in 0..M * M - 1 |->
            IF c >= start /\ (c - start) % 2 = 0
            THEN (Bb[r][c] + Mul(G, Ab[r][PyIdx(n, cols[(c - start) \div 2 + 1])])) % Q
            ELSE Bb[r][c]]])

\* the list index read at iteration pointer counted from the front of the list
ScanIndex_Forward(N, pointer) == pointer - 1

\* the list index read at iteration pointer: self.N ** 2 - pointer
ScanIndex(N, pointer) == N * N - pointer

\* one iteration of the loop of lines 92-96 on st = [exc, Ab, Bb]
PassStep(M, N, A, stored, st, pointer) ==
    LET n == FineCells(M, N) + 2
        i1 == ScanIndex(N, pointer)
        s1 == Evaluated(setN1(M, N))
        s2 == Evaluated(setN2(M, N))
    IN IF ~PyInRange(Len(s1), i1) THEN [st EXCEPT !.exc = "IndexError"]
       ELSE LET cols1 == TileColumns(M, N, 0, PyGet(s1, i1))
            IN IF \E k \in 1..Len(cols1) : ~PyInRange(n, cols1[k])
               THEN [st EXCEPT !.exc = "IndexError"]
               ELSE IF ~PyInRange(Len(s2), i1) THEN [st EXCEPT !.exc = "IndexError"]
               ELSE LET cols2 == TileColumns(M, N, 1, PyGet(s2, i1))
                    IN IF \E k \in 1..Len(cols2) : ~PyInRange(n, cols2[k])
                       THEN [st EXCEPT !.exc = "IndexError"]
                       ELSE LET b1 == AddColumns(M, N, st.Ab, st.Bb, 0, cols1)
                                b2 == AddColumns(M, N, st.Ab, b1, 1, cols2)
                            IN [exc |-> "none", Bb |-> b2,
                                Ab |-> MatMul(st.Ab, A, stored, n)]

RECURSIVE PassLoop(_, _, _, _, _, _)
PassLoop(M, N, A, stored, st, pointer) ==
    IF pointer > N * N \/ st.exc # "none" THEN st
    ELSE PassLoop(M, N, A, stored, PassStep(M, N, A, stored, st, pointer), pointer + 1)

\* lines 73-98: Ab, Bb (and the exception raised on the way, if any)
Precompute(M, N) ==
    LET n == FineCells(M, N) + 2
        A == Evaluated(A_ext(M, N))
        st0 == [exc |-> "none",
                Ab |-> Evaluated([r \in 0..n - 1 |-> [c \in 0..n - 1 |-> Eye(r, c)]]),
                Bb |-> Evaluated([r \in 0..n - 1 |-> [c \in 0..M * M - 1 |-> 0]])]
    IN PassLoop(M, N, A, Stored(A, n), st0, 1)

\* line 105: T_init on every fine cell, then the two ambient slots
InitialT(M, N) ==
    LET nc == FineCells(M, N)
    IN [r \in 0..nc + 1 |-> IF r < nc THEN T_init ELSE T_a]

\* LPBFSimulation(size): the constructed object, or the exception raised
LPBFSimulation(size) ==
    LET N == size
        M == size
    IN IF ~ShapesAgree(M, N) THEN [exc |-> "ValueError"]
       ELSE LET ops == Precompute(M, N)
            IN IF ops.exc # "none" THEN [exc |-> ops.exc]
               ELSE [exc |-> "none", N |-> N, M |-> M,
                     Ab |-> ops.Ab, Bb |-> ops.Bb,
                     T |-> InitialT(M, N),
                     clicked |-> {}]

\* LPBFSimulation(size) for every size offered, computed once
Constructed == Evaluated([size \in MinSize..MaxSize |-> LPBFSimulation(size)])

\* ------------------------------------------------------------------------
\* Methods of LPBFSimulation, lines 108-138
\* ------------------------------------------------------------------------
RECURSIVE Dot(_, _, _)
\* sum of row[k] * v[k] for k in 0..i-1 (four terms per unfolding)
Dot(row, v, i) ==
    IF i = 0 THEN 0
    ELSE IF i >= 4
    THEN (row[i - 1] * v[i - 1] + row[i - 2] * v[i - 2] + row[i - 3] * v[i - 3]
          + row[i - 4] * v[i - 4] + Dot(row, v, i - 4)) % Q
    ELSE (row[i - 1] * v[i - 1] + Dot(row, v, i - 1)) % Q

\* self.Ab @ self.T + self.Bb[:, index - 1].toarray().flatten()
AffineUpdate(self, index) ==
    LET n == FineCells(self.M, self.N) + 2
    IN Evaluated([r \in 0..n - 1 |->
         (Dot(self.Ab[r], self.T, n) + self.Bb[r][PyIdx(self.M * self.M, index - 1)]) % Q])

\* make_move that records the click before it validates the range
make_move_ClickBeforeRangeCheck(self, index) ==
    IF index \in self.clicked
    THEN [self |-> self, ret |-> [success |-> FALSE, message |-> "Tile already selected"]]
    ELSE IF index < 1 \/ index > self.N * self.M
    THEN [self |-> [self EXCEPT !.clicked = @ \cup {index}],
          ret |-> [success |-> FALSE, message |-> "Invalid tile index"]]
    ELSE [self |-> [self EXCEPT !.T = AffineUpdate(self, index),
                                !.clicked = @ \cup {index}],
          ret |-> [success |-> TRUE, message |-> "Move accepted"]]

\* make_move without the membership test of line 109
make_move_NoSelectedCheck(self, index) ==
    IF index < 1 \/ index > self.N * self.M
    THEN [self |-> self, ret |-> [success |-> FALSE, message |-> "Invalid tile index"]]
    ELSE [self |-> [self EXCEPT !.T = AffineUpdate(self, index),
                                !.clicked = @ \cup {index}],
          ret |-> [success |-> TRUE, message |-> "Move accepted"]]

\* LPBFSimulation.make_move: the object afterwards and the returned dict
LPBFSimulation_make_move(self, index) ==
    IF index \in self.clicked
    THEN [self |-> self, ret |-> [success |-> FALSE, message |-> "Tile already selected"]]
    ELSE IF index < 1 \/ index > self.N * self.M
    THEN [self |-> self, ret |-> [success |-> FALSE, message |-> "Invalid tile index"]]
    ELSE [self |-> [self EXCEPT !.T = AffineUpdate(self, index),
                                !.clicked = @ \cup {index}],
          ret |-> [success |-> TRUE, message |-> "Move accepted"]]

RECURSIVE BlockSum(_, _, _, _)
\* sum of the first k cells (row-major) of block (i, j) of the fine grid
BlockSum(self, i, j, k) ==
    IF k = 0 THEN 0
    ELSE LET row == i * self.N + (k - 1) \div self.N
             col == j * self.N + ((k - 1) % self.N)
         IN (self.T[row * (self.M * self.N) + col] + BlockSum(self, i, j, k - 1)) % Q

\* LPBFSimulation.get_current_map: N-by-N list of block means
get_current_map(self) ==
    Evaluated([i \in 0..self.N - 1 |->
        [j \in 0..self.N - 1 |-> Div(BlockSum(self, i, j, self.N * self.N), self.N * self.N)]])

\* is_complete with a strict comparison
is_complete_Strict(self) == Cardinality(self.clicked) > self.N * self.M

is_complete(self) == Cardinality(self.clicked) >= self.N * self.M

\* ------------------------------------------------------------------------
\* Module state and the three entry points, lines 5-26 (main.py lines 23-34)
\* ------------------------------------------------------------------------
VARIABLES
    simulation,  \* the module global: None or the live LPBFSimulation
    result,      \* what the last request returned to the transport
    tile,        \* SpecPath, SpecPass: the tile whose pass is under way (0: none)
    scanSize,    \* SpecPath: the size whose scan path is walked
    scanPointer, \* SpecPath: the loop variable pointer of lines 91-96
    visited,     \* SpecPath: the columns read for the tile so far
    stepState,   \* SpecPass: the state vector advanced one elementary step at a time
    step,        \* SpecPass: elementary steps taken in the pass under way
    pc,          \* SpecConc: where each request thread stands in make_move
    req,         \* SpecConc: the index each thread was called with
    newT,        \* SpecConc: the vector each thread has computed and not yet stored
    accepted     \* SpecConc: the indices answered "Move accepted", in order

vars == <<simulation, result, tile, scanSize, scanPointer, visited, stepState, step,
          pc, req, newT, accepted>>

pathVars == <<scanSize, scanPointer, visited>>

passVars == <<stepState, step>>

concVars == <<pc, req, newT, accepted>>

PathIdle == scanSize = 0 /\ scanPointer = 0 /\ visited = <<>>

PassIdle == stepState = <<>> /\ step = 0

ConcIdle == pc = <<>> /\ req = <<>> /\ newT = <<>> /\ accepted = <<>>

None == [class |-> "NoneType"]

\* the state of the constructed object
Object(obj) ==
    [class |-> "LPBFSimulation", N |-> obj.N, M |-> obj.M, Ab |-> obj.Ab,
     Bb |-> obj.Bb, T |-> obj.T, clicked |-> obj.clicked]

\* POST /api/init: an exception in the constructor leaves the global untouched
start_simulation(size) ==
    LET obj == Constructed[size]
    IN IF obj.exc # "none"
       THEN /\ simulation' = simulation
            /\ result' = [op |-> "init", raised |-> obj.exc]
       ELSE /\ simulation' = Object(obj)
            /\ result' = [op |-> "init", raised |-> "none",
                          grid |-> get_current_map(Object(obj))]

\* make_move that builds a default session when none exists
make_move_LazySession(index) ==
    LET cur == IF simulation = None THEN Object(Constructed[2]) ELSE simulation
        r == LPBFSimulation_make_move(cur, index)
    IN /\ simulation' = r.self
       /\ result' = [op |-> "move", success |-> r.ret.success, message |-> r.ret.message]

\* POST /api/move
make_move(index) ==
    IF simulation = None
    THEN /\ result' = [op |-> "move", success |-> FALSE, message |-> "No active simulation"]
         /\ UNCHANGED simulation
    ELSE LET r == LPBFSimulation_make_move(simulation, index)
         IN /\ simulation' = r.self
            /\ result' = [op |-> "move", success |-> r.ret.success, message |-> r.ret.message]

\* GET /api/status (the accuracy entry, a float norm, is not represented)
get_status ==
    /\ UNCHANGED simulation
    /\ IF simulation = None
       THEN result' = [op |-> "status", empty |-> TRUE]
       ELSE result' = [op |-> "status", empty |-> FALSE,
                       temperatureMap |-> get_current_map(simulation),
                       complete |-> is_complete(simulation)]

Min(a, b) == IF a < b THEN a ELSE b

\* the indices a client sends to /api/move in the current state
Offered ==
    IF simulation = None THEN MinIndex..MaxTile + 1
    ELSE (MinIndex..Min(MaxTile, simulation.N * simulation.M))
         \cup {simulation.N * simulation.M + 1}

Init ==
    /\ simulation = None
    /\ result = [op |-> "none"]
    /\ tile = 0
    /\ PathIdle /\ PassIdle /\ ConcIdle

\* what the three entry points never touch
idleVars == <<tile, pathVars, passVars, concVars>>

Next ==
    \/ \E size \in MinSize..MaxSize : start_simulation(size) /\ UNCHANGED idleVars
    \/ \E index \in Offered : make_move(index) /\ UNCHANGED idleVars
    \/ get_status /\ UNCHANGED idleVars

Spec == Init /\ [][Next]_vars

\* ------------------------------------------------------------------------
\* Properties of the session state machine (specification Spec)
\* ------------------------------------------------------------------------
\* every index a client may send in some state
AllIndices == MinIndex..(Max(MaxTile, MaxSize * MaxSize) + 1)

TileCount(self) == self.N * self.M

\* C1: in an active session a move with index < 1 or index > N*M is answered
\* success = false, "Invalid tile index", and the session (state vector and
\* selected set) is the same after the call as before it.
C1_OutOfRangeRejectedUnchanged ==
    [][\A index \in AllIndices :
         (/\ simulation # None
          /\ (index < 1 \/ index > TileCount(simulation))
          /\ make_move(index))
         => (/\ result'.success = FALSE
             /\ result'.message = "Invalid tile index"
             /\ simulation'.T = simulation.T
             /\ simulation'.clicked = simulation.clicked)]_vars

C1_Witness ==
    /\ simulation # None
    /\ simulation.clicked # {}
    /\ result.op = "move"
    /\ result.message = "Invalid tile index"

\* C2: in an active session a move on a tile already in the selected set is
\* answered "Tile already selected" and leaves the state vector and the
\* selected set unchanged, so the tile is still selected and the same move is
\* rejected again in the same way.
C2_AlreadySelectedIdempotent ==
    [][\A index \in AllIndices :
         (/\ simulation # None
          /\ index \in simulation.clicked
          /\ make_move(index))
         => (/\ result'.success = FALSE
             /\ result'.message = "Tile already selected"
             /\ simulation'.T = simulation.T
             /\ simulation'.clicked = simulation.clicked
             /\ index \in simulation'.clicked)]_vars

C2_Witness ==
    /\ simulation # None
    /\ result.op = "move"
    /\ result.message = "Tile already selected"

\* C3: a session is complete exactly when every tile 1..N*M has been
\* accepted; the selected set holds only indices of 1..N*M, so never more
\* than N*M of them; and the complete flag of a status answer says the same.
C3_CompleteIffAllTiles ==
    simulation # None =>
        /\ simulation.clicked \subseteq 1..TileCount(simulation)
        /\ Cardinality(simulation.clicked) <= TileCount(simulation)
        /\ is_complete(simulation) <=> (simulation.clicked = 1..TileCount(simulation))
        /\ (result.op = "status" /\ ~result.empty)
              => (result.complete <=> (simulation.clicked = 1..TileCount(simulation)))

C3_Witness ==
    /\ simulation # None
    /\ simulation.N = 2
    /\ simulation.clicked = 1..4
    /\ result.op = "status"
    /\ result.complete

\* the N-by-N map whose every entry is v
UniformMap(N, v) == [i \in 0..N - 1 |-> [j \in 0..N - 1 |-> v]]

\* C4: for every size >= 1 and from any prior state, start_simulation(size)
\* succeeds, installs a session of that size with an empty selected set, and
\* returns the size-by-size map whose every entry is T_init.
C4_InitializeEveryValidSize ==
    [][\A size \in 1..MaxSize :
         start_simulation(size)
         => (/\ result'.raised = "none"
             /\ simulation' # None
             /\ simulation'.N = size
             /\ simulation'.clicked = {}
             /\ result'.grid = UniformMap(size, T_init))]_vars

\* C5: for every size < 1, start_simulation(size) ends in an error: it
\* installs no session for that size and returns no map.
C5_InvalidSizeRejected ==
    [][\A size \in MinSize..0 :
         start_simulation(size)
         => (/\ result'.raised # "none"
             /\ simulation' = simulation)]_vars

\* C6: while no session exists, a status query answers the empty result, a
\* move of any index is answered "No active simulation", and neither of them
\* creates a session.
C6_UninitializedAnswers ==
    [][(simulation = None /\ result'.op \in {"status", "move"})
         => (/\ simulation' = None
             /\ (result'.op = "status" => result'.empty)
             /\ (result'.op = "move"
                   => (result'.success = FALSE
                       /\ result'.message = "No active simulation")))]_vars

C6_Witness ==
    /\ simulation = None
    /\ result.op = "move"
    /\ result.message = "No active simulation"

\* C8: in every state of a session the last two entries of the state vector,
\* the ambient slots, hold the ambient temperature T_a, whatever moves were
\* accepted.
C8_AmbientSlotsHold ==
    simulation # None =>
        LET nc == FineCells(simulation.M, simulation.N)
        IN /\ simulation.T[nc] = T_a
           /\ simulation.T[nc + 1] = T_a

\* ------------------------------------------------------------------------
\* The scan path of one tile, read off the loop of lines 91-96
\* (specification SpecPath)
\* ------------------------------------------------------------------------
MaxScanSize == 3

\* the column of Ab that lines 93-94 read for tile index at list index k:
\* tiles in even columns of Bb follow setN1, tiles in odd columns setN2
LaserColumn(M, N, index, k) ==
    LET c == index - 1
        off == IF c % 2 = 0 THEN PyGet(setN1(M, N), k) ELSE PyGet(setN2(M, N), k)
    IN PyIdx(FineCells(M, N) + 2, TileColumns(M, N, c % 2, off)[c \div 2 + 1])

\* the positions of the state vector that get_current_map averages into
\* entry (i, j) of the map
BlockCells(M, N, i, j) ==
    {row * (M * N) + col : row \in i * N..(i + 1) * N - 1, col \in j * N..(j + 1) * N - 1}

\* the block of tile index, tiles numbered row-major from 1
Block(M, N, index) == BlockCells(M, N, (index - 1) \div N, (index - 1) % N)

PathInit ==
    /\ simulation = None
    /\ result = [op |-> "none"]
    /\ scanSize \in 2..MaxScanSize
    /\ tile \in 1..scanSize * scanSize
    /\ scanPointer = 1
    /\ visited = <<>>
    /\ PassIdle /\ ConcIdle

\* one iteration of the loop for the tile: the column read, then pointer += 1
ScanStep ==
    /\ scanPointer <= scanSize * scanSize
    /\ visited' = Append(visited,
                    LaserColumn(scanSize, scanSize, tile, ScanIndex(scanSize, scanPointer)))
    /\ scanPointer' = scanPointer + 1
    /\ UNCHANGED <<simulation, result, tile, scanSize, passVars, concVars>>

PathNext == ScanStep

SpecPath == PathInit /\ [][PathNext]_vars

\* C9: for every size >= 2 and every tile, the positions at which the loop
\* injects input for the tile are cells of the tile's own block, no position
\* is injected twice, and when the loop has ended they are exactly the cells
\* of that block.
C9_FootprintIsOwnBlock ==
    LET blk == Block(scanSize, scanSize, tile)
    IN /\ \A k \in 1..Len(visited) : visited[k] \in blk
       /\ \A k \in 1..Len(visited) : \A i \in 1..Len(visited) :
             k # i => visited[k] # visited[i]
       /\ scanPointer = scanSize * scanSize + 1
             => {visited[k] : k \in 1..Len(visited)} = blk

\* ------------------------------------------------------------------------
\* One pass taken one elementary step at a time, beside the single affine
\* update of make_move (specification SpecPass)
\* ------------------------------------------------------------------------
MaxPasses == 3

\* A of line 71 for every size that constructs a session with tiles
Embedded == Evaluated([size \in 2..MaxSize |-> A_ext(size, size)])

PassInit ==
    /\ \E size \in 2..MaxSize :
          /\ simulation = Object(Constructed[size])
          /\ result = [op |-> "init", raised |-> "none",
                       grid |-> get_current_map(Object(Constructed[size]))]
    /\ tile = 0
    /\ PathIdle /\ PassIdle /\ ConcIdle

\* the laser enters a tile not yet selected
BeginPass(index) ==
    /\ tile = 0
    /\ Cardinality(simulation.clicked) < MaxPasses
    /\ index \notin simulation.clicked
    /\ tile' = index
    /\ stepState' = simulation.T
    /\ step' = 0
    /\ UNCHANGED <<simulation, result, pathVars, concVars>>

\* one elementary step: the state advances through A and receives G at the
\* position the scan path holds at list index step
ElementaryStep ==
    /\ tile # 0
    /\ step < simulation.N * simulation.N
    /\ \E A \in {Embedded[simulation.N]} :
          LET n == FineCells(simulation.M, simulation.N) + 2
              col == LaserColumn(simulation.M, simulation.N, tile, step)
          IN stepState' = [r \in 0..n - 1 |->
                             (Dot(A[r], stepState, n) + (IF r = col THEN G ELSE 0)) % Q]
    /\ step' = step + 1
    /\ UNCHANGED <<simulation, result, tile, pathVars, concVars>>

\* the pass is over: the move is made on the session
ApplyMove ==
    /\ tile # 0
    /\ step = simulation.N * simulation.N
    /\ make_move(tile)
    /\ tile' = 0
    /\ UNCHANGED <<stepState, step, pathVars, concVars>>

PassNext ==
    \/ \E index \in 1..Min(MaxTile, simulation.N * simulation.M) : BeginPass(index)
    \/ ElementaryStep
    \/ ApplyMove

SpecPass == PassInit /\ [][PassNext]_vars

\* C10: when a move has been accepted, the state vector left by its single
\* affine update Ab*T + Bb[:, i-1] is the vector reached from the same start
\* by N*M elementary steps x := A*x + G*e(p_i(t)), t = 0..N*M-1, with p_i(t)
\* the position of list index t of the tile's scan path.
C10_AffineUpdateIsStepwisePass ==
    (tile = 0 /\ result.op = "move" /\ result.success)
        => (step = simulation.N * simulation.M /\ stepState = simulation.T)

C10_Witness ==
    /\ tile = 0
    /\ result.op = "move"
    /\ result.success
    /\ Cardinality(simulation.clicked) = 2
    /\ step = simulation.N * simulation.M
    /\ stepState = simulation.T

\* ------------------------------------------------------------------------
\* Two request threads inside LPBFSimulation.make_move (specification
\* SpecConc): main.py declares its endpoints with def, so the server runs
\* them on a thread pool, and engine.py takes no lock
\* ------------------------------------------------------------------------
NumThreads == 2
MaxConcTile == 2

Threads == 1..NumThreads

ConcInit ==
    /\ \E size \in 2..MaxSize :
          /\ simulation = Object(Constructed[size])
          /\ result = [op |-> "init", raised |-> "none",
                       grid |-> get_current_map(Object(Constructed[size]))]
    /\ tile = 0
    /\ PathIdle /\ PassIdle
    /\ pc = [th \in Threads |-> "idle"]
    /\ req = [th \in Threads |-> 0]
    /\ newT = [th \in Threads |-> <<>>]
    /\ accepted = <<>>

\* POST /api/move reaches simulation.make_move(index) on thread th
Receive(th, index) ==
    /\ pc[th] = "idle"
    /\ pc' = [pc EXCEPT ![th] = "check"]
    /\ req' = [req EXCEPT ![th] = index]
    /\ UNCHANGED <<simulation, result, newT, accepted, tile, pathVars, passVars>>

\* lines 109-112: the two tests, answered at once when either rejects
CheckMove(th) ==
    /\ pc[th] = "check"
    /\ IF req[th] \in simulation.clicked
       THEN /\ result' = [op |-> "move", success |-> FALSE,
                          message |-> "Tile already selected"]
            /\ pc' = [pc EXCEPT ![th] = "idle"]
       ELSE IF req[th] < 1 \/ req[th] > simulation.N * simulation.M
       THEN /\ result' = [op |-> "move", success |-> FALSE,
                          message |-> "Invalid tile index"]
            /\ pc' = [pc EXCEPT ![th] = "idle"]
       ELSE /\ pc' = [pc EXCEPT ![th] = "compute"]
            /\ UNCHANGED result
    /\ UNCHANGED <<simulation, req, newT, accepted, tile, pathVars, passVars>>

\* line 114, right-hand side: reads self.T and computes the new vector
ComputeMove(th) ==
    /\ pc[th] = "compute"
    /\ newT' = [newT EXCEPT ![th] = AffineUpdate(simulation, req[th])]
    /\ pc' = [pc EXCEPT ![th] = "store"]
    /\ UNCHANGED <<simulation, result, req, accepted, tile, pathVars, passVars>>

\* line 114, assignment: self.T = ...
StoreMove(th) ==
    /\ pc[th] = "store"
    /\ simulation' = [simulation EXCEPT !.T = newT[th]]
    /\ pc' = [pc EXCEPT ![th] = "add"]
    /\ UNCHANGED <<result, req, newT, accepted, tile, pathVars, passVars>>

\* lines 115-117: self.clicked.add(index) and the answer
AddMove(th) ==
    /\ pc[th] = "add"
    /\ simulation' = [simulation EXCEPT !.clicked = @ \cup {req[th]}]
    /\ result' = [op |-> "move", success |-> TRUE, message |-> "Move accepted"]
    /\ accepted' = Append(accepted, req[th])
    /\ pc' = [pc EXCEPT ![th] = "idle"]
    /\ UNCHANGED <<req, newT, tile, pathVars, passVars>>

ConcNext ==
    \E th \in Threads :
        \/ \E index \in 1..MaxConcTile : Receive(th, index)
        \/ CheckMove(th)
        \/ ComputeMove(th)
        \/ StoreMove(th)
        \/ AddMove(th)

SpecConc == ConcInit /\ [][ConcNext]_vars

RECURSIVE Sequential(_, _, _, _)
\* the state vector after the first k moves of the sequence order are made
\* one after another on a fresh session
Sequential(self, order, ks, k) ==
    IF k = 0 THEN self.T
    ELSE AffineUpdate([self EXCEPT !.T = Sequential(self, order, ks, k - 1)], ks[order[k]])

\* C7: moves served concurrently behave as if made one at a time: no tile is
\* answered "Move accepted" twice, and whenever no move is under way the
\* state vector is the one obtained by making the accepted moves one after
\* another in some order.
C7_MovesSerialized ==
    /\ \A k \in 1..Len(accepted) : \A i \in 1..Len(accepted) :
          k # i => accepted[k] # accepted[i]
    /\ (\A th \in Threads : pc[th] = "idle")
          => \E order \in [1..Len(accepted) -> 1..Len(accepted)] :
                /\ \A k \in 1..Len(accepted) : \A i \in 1..Len(accepted) :
                      k # i => order[k] # order[i]
                /\ simulation.T
                     = Sequential([simulation EXCEPT
                                     !.T = InitialT(simulation.M, simulation.N)],
                                  order, accepted, Len(accepted))

====
